---- MODULE Spec2Model ----
(***************************************************************************)
(* Block-based image scrambler/unscrambler (block_image_encryption.py).    *)
(*                                                                         *)
(* The file system holds the input image (src), the scrambled image (scr), *)
(* its key file "<scr>.key.json" (keyf) and the unscrambled image (out).   *)
(* block_scramble and block_unscramble are modelled as one action each.    *)
(* Images are records [exists, w, h, px]; px maps <<x, y>> to a pixel      *)
(* value and 0 is the black that Image.new fills a fresh image with.       *)
(* Image.open / save are taken to be lossless (PNG-like): the pixels read   *)
(* back are the pixels saved; a failed save leaves no file.                *)
(***************************************************************************)
EXTENDS Integers, Sequences, FiniteSets, TLC

VARIABLES src, scr, keyf, out,
          s_status, s_bs, s_rects, perm,
          d_status, d_bs, d_rects, d_key, d_keypath

vars == <<src, scr, keyf, out, s_status, s_bs, s_rects, perm,
          d_status, d_bs, d_rects, d_key, d_keypath>>

(***************************************************************************)
(* Bounds.                                                                 *)
(***************************************************************************)
MaxW == 3
MaxH == 3
MaxBS == 2
MaxBlocks == 4
MaxKeyLen == 2
GridMaxDim == 6
GridMaxBS == 4

DefaultBlockSize == 32

BlockSizes == {-1, 0} \cup (1..MaxBS)
KeyVals == {-1} \cup (0..(MaxKeyLen - 1))
JsonInts == KeyVals \cup (0..MaxBlocks)

(***************************************************************************)
(* Images (PIL).                                                           *)
(***************************************************************************)
NoFile == [exists |-> FALSE]
\* None in a block list: no image, hence no size.
NoneBlock == [exists |-> FALSE, w |-> 0, h |-> 0, px |-> <<>>]

Pixels(w, h) == (0..(w - 1)) \X (0..(h - 1))

\* Image.new('RGB', (width, height)): every pixel black.
NewImage(width, height) ==
    [exists |-> TRUE, w |-> width, h |-> height,
     px |-> [p \in Pixels(width, height) |-> 0]]

\* img.crop((left, top, right, bottom)) with the box inside the image.
Crop(img, box) ==
    [exists |-> TRUE, w |-> box[3] - box[1], h |-> box[4] - box[2],
     px |-> [p \in Pixels(box[3] - box[1], box[4] - box[2]) |->
                img.px[<<p[1] + box[1], p[2] + box[2]>>]]]

\* dst.paste(block, (left, top)): the region has the block's own size and
\* is clipped to the destination; pixels outside the region are untouched.
Paste(dst, block, left, top) ==
    [dst EXCEPT !.px =
        [p \in Pixels(dst.w, dst.h) |->
            IF /\ left <= p[1] /\ p[1] < left + block.w
               /\ top <= p[2] /\ p[2] < top + block.h
            THEN block.px[<<p[1] - left, p[2] - top>>]
            ELSE dst.px[p]]]

\* Variant: pasting None is silently skipped.
PasteRaises_Mut(block) == FALSE

\* paste() of something that is not an image raises ValueError
\* ("cannot determine region size").
PasteRaises(block) == ~block.exists

(***************************************************************************)
(* Grid geometry.                                                          *)
(***************************************************************************)
Min(a, b) == IF a < b THEN a ELSE b

\* math.ceil(a / b) for b # 0.
PyCeilDiv(a, b) ==
    IF b > 0 THEN -((-a) \div b) ELSE -(a \div (-b))

\* range(n) is empty for n <= 0.
RangeLen(n) == IF n > 0 THEN n ELSE 0

\* Variant: the box is not clipped to the image.
BlockBox_Mut(i, j, block_size, width, height) ==
    <<j * block_size, i * block_size, (j + 1) * block_size, (i + 1) * block_size>>

\* The crop box of grid cell (i, j).
BlockBox(i, j, block_size, width, height) ==
    <<j * block_size, i * block_size,
      Min((j + 1) * block_size, width), Min((i + 1) * block_size, height)>>

\* Extraction loop of block_scramble: the boxes in the order appended.
ScrambleRects(width, height, block_size) ==
    LET cols == RangeLen(PyCeilDiv(width, block_size))
        rows == RangeLen(PyCeilDiv(height, block_size))
    IN  [k \in 1..(rows * cols) |->
            BlockBox((k - 1) \div cols, (k - 1) % cols, block_size, width, height)]

\* Extraction loop of block_unscramble.
UnscrambleRects(width, height, block_size) ==
    LET cols == RangeLen(PyCeilDiv(width, block_size))
        rows == RangeLen(PyCeilDiv(height, block_size))
    IN  [k \in 1..(rows * cols) |->
            BlockBox((k - 1) \div cols, (k - 1) % cols, block_size, width, height)]

(***************************************************************************)
(* Permutation generator: list(range(n)) then random.shuffle.              *)
(***************************************************************************)
RangeList(n) == [k \in 1..n |-> k - 1]

\* Variant: x[i] = x[j] without the exchange.
Swap_Mut(x, i, j) == [x EXCEPT ![i + 1] = x[j + 1]]

\* x[i], x[j] = x[j], x[i]   (0-based i, j)
Swap(x, i, j) ==
    [x EXCEPT ![i + 1] = x[j + 1], ![j + 1] = x[i + 1]]

\* The draws of randbelow(i + 1) for i = len-1 .. 1.
RandomDraws(n) ==
    {r \in [1..(n - 1) -> 0..(n - 1)] : \A i \in 1..(n - 1) : r[i] <= i}

RECURSIVE ShuffleLoop(_, _, _)
ShuffleLoop(x, rnd, i) ==
    IF i < 1 THEN x ELSE ShuffleLoop(Swap(x, i, rnd[i]), rnd, i - 1)

Shuffle(x, rnd) == ShuffleLoop(x, rnd, Len(x) - 1)

(***************************************************************************)
(* Key codec: json.dump / json.load of a list of integers, as tokens.      *)
(***************************************************************************)
JsonDump(list) ==
    LET n == Len(list) IN
    IF n = 0 THEN <<"[", "]">>
    ELSE [t \in 1..(2 * n + 1) |->
            IF t = 1 THEN "["
            ELSE IF t = 2 * n + 1 THEN "]"
            ELSE IF t % 2 = 0 THEN ToString(list[t \div 2])
            ELSE ","]

IsIntToken(tok) == \E n \in JsonInts : ToString(n) = tok
ParseInt(tok) == CHOOSE n \in JsonInts : ToString(n) = tok

JsonValid(toks) ==
    LET n == Len(toks) IN
    /\ n >= 2
    /\ toks[1] = "["
    /\ toks[n] = "]"
    /\ \/ n = 2
       \/ /\ n % 2 = 1
          /\ \A t \in 2..(n - 1) :
                IF t % 2 = 0 THEN IsIntToken(toks[t]) ELSE toks[t] = ","

JsonLoad(toks) ==
    [k \in 1..((Len(toks) - 1) \div 2) |-> ParseInt(toks[2 * k])]

KeyFile(toks) == [exists |-> TRUE, toks |-> toks]

(***************************************************************************)
(* block_scramble.                                                         *)
(***************************************************************************)
\* original_blocks: one crop per box, in extraction order.
ExtractBlocks(img, rects) == [k \in 1..Len(rects) |-> Crop(img, rects[k])]

\* Paste loop of block_scramble after the first n grid positions.
RECURSIVE ScramblePasteLoop(_, _, _, _, _, _)
ScramblePasteLoop(dst, original_blocks, permutation, cols, block_size, n) ==
    IF n = 0 THEN dst
    ELSE LET prev == ScramblePasteLoop(dst, original_blocks, permutation,
                                       cols, block_size, n - 1)
             current_grid_index == n - 1
             i == current_grid_index \div cols
             j == current_grid_index % cols
         IN  IF current_grid_index < Len(permutation)
             THEN Paste(prev,
                        original_blocks[permutation[current_grid_index + 1] + 1],
                        j * block_size, i * block_size)
             ELSE prev

ScrambleFaults == {"none", "save", "keyopen", "keywrite"}

\* What one call leaves behind; fault is the I/O step that fails (if any),
\* cut the number of key tokens on disk when the key write fails.  The
\* permutation and the boxes are kept for the properties.
ScrambleResult(img, block_size, rnd, fault, cut) ==
    LET unchanged == [status |-> "none", scr |-> NoFile, keyf |-> NoFile,
                      rects |-> <<>>, perm |-> <<>>]
    IN
    IF ~img.exists THEN [unchanged EXCEPT !.status = "FileNotFoundError"]
    ELSE IF block_size = 0 THEN [unchanged EXCEPT !.status = "ZeroDivisionError"]
    ELSE
    LET width == img.w
        height == img.h
        cols == RangeLen(PyCeilDiv(width, block_size))
        rows == RangeLen(PyCeilDiv(height, block_size))
        rects == ScrambleRects(width, height, block_size)
        original_blocks == ExtractBlocks(img, rects)
        permutation == Shuffle(RangeList(Len(original_blocks)), rnd)
        scrambled_img == ScramblePasteLoop(NewImage(width, height), original_blocks,
                                           permutation, cols, block_size, rows * cols)
        done == [unchanged EXCEPT !.rects = rects, !.perm = permutation]
    IN
    IF fault = "save" THEN [done EXCEPT !.status = "SaveError"]
    ELSE IF fault = "keyopen"
    THEN [done EXCEPT !.status = "KeyOpenError", !.scr = scrambled_img]
    ELSE IF fault = "keywrite"
    THEN [done EXCEPT !.status = "KeyWriteError", !.scr = scrambled_img,
                      !.keyf = KeyFile(SubSeq(JsonDump(permutation), 1, cut))]
    ELSE [done EXCEPT !.status = "ok", !.scr = scrambled_img,
                      !.keyf = KeyFile(JsonDump(permutation))]

\* Number of blocks the extraction loop yields.
BlockCount(width, height, block_size) ==
    IF block_size = 0 THEN 0
    ELSE RangeLen(PyCeilDiv(width, block_size)) * RangeLen(PyCeilDiv(height, block_size))

block_scramble(block_size, fault) ==
    /\ s_status = "none"
    /\ LET n == IF src.exists THEN BlockCount(src.w, src.h, block_size) ELSE 0 IN
       /\ n <= MaxBlocks
       /\ \E rnd \in RandomDraws(n) :
          \E cut \in IF fault = "keywrite" THEN {0, 2 * n} ELSE {0} :
            LET r == ScrambleResult(src, block_size, rnd, fault, cut) IN
            /\ s_status' = r.status
            /\ s_bs' = block_size
            /\ s_rects' = r.rects
            /\ perm' = r.perm
            /\ scr' = r.scr
            /\ keyf' = r.keyf
    /\ UNCHANGED <<src, out, d_status, d_bs, d_rects, d_key, d_keypath>>

(***************************************************************************)
(* block_unscramble.                                                       *)
(***************************************************************************)
\* Variant: only a key that is too long is rejected.
KeySizeMismatch_Mut(permutation, scrambled_blocks) ==
    Len(permutation) > Len(scrambled_blocks)

\* The length validation before reconstruction.
KeySizeMismatch(permutation, scrambled_blocks) ==
    Len(permutation) # Len(scrambled_blocks)

\* Python list index: negative indices count from the end.
PyIndex(idx, n) == IF idx < 0 THEN idx + n ELSE idx
IndexRaises(idx, n) == idx >= n \/ idx < -n

\* Variant: the permutation is applied forwards a second time
\* (ordered[k] = scrambled[permutation[k]]).
ReconstructLoop_Mut(permutation, scrambled_blocks, k) ==
    [c \in 1..Len(scrambled_blocks) |->
        IF c <= k
        THEN scrambled_blocks[PyIndex(permutation[c], Len(scrambled_blocks)) + 1]
        ELSE NoneBlock]

\* unscrambled_blocks_ordered after the first k iterations of the
\* reconstruction loop (all indices valid).
RECURSIVE ReconstructLoop(_, _, _)
ReconstructLoop(permutation, scrambled_blocks, k) ==
    IF k = 0 THEN [c \in 1..Len(scrambled_blocks) |-> NoneBlock]
    ELSE LET prev == ReconstructLoop(permutation, scrambled_blocks, k - 1)
             original_idx == permutation[k]
         IN  [prev EXCEPT ![PyIndex(original_idx, Len(prev)) + 1] = scrambled_blocks[k]]

\* Paste loop of block_unscramble after the first n grid positions
\* (no slot is None).
RECURSIVE UnscramblePasteLoop(_, _, _, _, _)
UnscramblePasteLoop(dst, ordered, cols, block_size, n) ==
    IF n = 0 THEN dst
    ELSE LET prev == UnscramblePasteLoop(dst, ordered, cols, block_size, n - 1)
             block_idx_counter == n - 1
             i == block_idx_counter \div cols
             j == block_idx_counter % cols
         IN  IF block_idx_counter < Len(ordered)
             THEN Paste(prev, ordered[block_idx_counter + 1],
                        j * block_size, i * block_size)
             ELSE prev

\* The slots the paste loop reaches.
PastedSlots(ordered, rows, cols) ==
    {c \in 1..Len(ordered) : c <= rows * cols}

UnscrambleFaults == {"none", "save"}

\* What one call leaves behind; the loaded key and the boxes are kept for
\* the properties once the call has extracted the blocks.
UnscrambleResult(img, keyfile, block_size, fault) ==
    LET unchanged == [status |-> "none", out |-> NoFile, key |-> <<>>, rects |-> <<>>]
    IN
    IF ~keyfile.exists THEN [unchanged EXCEPT !.status = "KeyNotFound"]
    ELSE IF ~JsonValid(keyfile.toks) THEN [unchanged EXCEPT !.status = "JSONDecodeError"]
    ELSE
    LET permutation == JsonLoad(keyfile.toks)
        loaded == [unchanged EXCEPT !.key = permutation]
    IN
    IF ~img.exists THEN [unchanged EXCEPT !.status = "FileNotFoundError"]
    ELSE IF block_size = 0 THEN [unchanged EXCEPT !.status = "ZeroDivisionError"]
    ELSE
    LET width == img.w
        height == img.h
        cols == RangeLen(PyCeilDiv(width, block_size))
        rows == RangeLen(PyCeilDiv(height, block_size))
        rects == UnscrambleRects(width, height, block_size)
        scrambled_blocks == ExtractBlocks(img, rects)
        extracted == [loaded EXCEPT !.rects = rects]
    IN
    IF KeySizeMismatch(permutation, scrambled_blocks)
    THEN [extracted EXCEPT !.status = "KeySizeMismatch"]
    ELSE IF \E k \in 1..Len(permutation) : IndexRaises(permutation[k], Len(scrambled_blocks))
    THEN [extracted EXCEPT !.status = "IndexError"]
    ELSE
    LET ordered == ReconstructLoop(permutation, scrambled_blocks, Len(permutation))
    IN
    IF \E c \in PastedSlots(ordered, rows, cols) : PasteRaises(ordered[c])
    THEN [extracted EXCEPT !.status = "ValueError"]
    ELSE IF fault = "save" THEN [extracted EXCEPT !.status = "SaveError"]
    ELSE [extracted EXCEPT !.status = "ok",
             !.out = UnscramblePasteLoop(NewImage(width, height), ordered,
                                         cols, block_size, rows * cols)]

\* Key files a caller can name with an explicit key_path.
ForeignKeys == UNION {[1..n -> KeyVals] : n \in 0..MaxKeyLen}
ExplicitKeyFiles ==
    {NoFile, KeyFile(<<"[">>)} \cup {KeyFile(JsonDump(k)) : k \in ForeignKeys}

block_unscramble(block_size, key_path, fault) ==
    /\ d_status = "none"
    /\ \E kfile \in IF key_path = "default" THEN {keyf} ELSE ExplicitKeyFiles :
         LET r == UnscrambleResult(scr, kfile, block_size, fault) IN
         /\ d_status' = r.status
         /\ d_bs' = block_size
         /\ d_rects' = r.rects
         /\ d_key' = r.key
         /\ d_keypath' = key_path
         /\ out' = r.out
    /\ UNCHANGED <<src, scr, keyf, s_status, s_bs, s_rects, perm>>

(***************************************************************************)
(* Specification: one image, one call of each operation.                   *)
(***************************************************************************)
Patterns == {"label", "checker"}

PixelOf(pattern, width, p) ==
    IF pattern = "label" THEN 1 + p[1] + p[2] * width ELSE (p[1] + p[2]) % 2

ImageOf(pattern, width, height) ==
    [exists |-> TRUE, w |-> width, h |-> height,
     px |-> [p \in Pixels(width, height) |-> PixelOf(pattern, width, p)]]

SourceImages ==
    {NoFile} \cup {ImageOf(pat, w, h) : pat \in Patterns, w \in 1..MaxW, h \in 1..MaxH}

Idle ==
    /\ scr = NoFile /\ keyf = NoFile /\ out = NoFile
    /\ s_status = "none" /\ s_bs = 0 /\ s_rects = <<>> /\ perm = <<>>
    /\ d_status = "none" /\ d_bs = 0 /\ d_rects = <<>> /\ d_key = <<>>
    /\ d_keypath = "none"

Init ==
    /\ src \in SourceImages
    /\ Idle

Next ==
    \/ \E block_size \in BlockSizes, fault \in ScrambleFaults :
          block_scramble(block_size, fault)
    \/ \E block_size \in BlockSizes, key_path \in {"default", "explicit"},
          fault \in UnscrambleFaults :
          block_unscramble(block_size, key_path, fault)

Spec == Init /\ [][Next]_vars

(***************************************************************************)
(* Specification of the grid geometry alone: the extraction loops of the   *)
(* two operations applied to bounded dimensions and to the 65x65 / 32      *)
(* scenario.                                                               *)
(***************************************************************************)
GridInputs ==
    ((1..GridMaxDim) \X (1..GridMaxDim) \X (1..GridMaxBS))
        \cup {<<2 * DefaultBlockSize + 1, 2 * DefaultBlockSize + 1, DefaultBlockSize>>}

GridInit ==
    /\ \E t \in GridInputs : src = ImageOf("label", t[1], t[2])
    /\ Idle

ScrambleExtract(block_size) ==
    /\ s_rects = <<>>
    /\ <<src.w, src.h, block_size>> \in GridInputs
    /\ s_rects' = ScrambleRects(src.w, src.h, block_size)
    /\ s_bs' = block_size
    /\ UNCHANGED <<src, scr, keyf, out, s_status, perm,
                   d_status, d_bs, d_rects, d_key, d_keypath>>

UnscrambleExtract(block_size) ==
    /\ d_rects = <<>>
    /\ <<src.w, src.h, block_size>> \in GridInputs
    /\ d_rects' = UnscrambleRects(src.w, src.h, block_size)
    /\ d_bs' = block_size
    /\ UNCHANGED <<src, scr, keyf, out, s_status, s_bs, s_rects, perm,
                   d_status, d_key, d_keypath>>

GridNext ==
    \/ \E block_size \in (1..GridMaxBS) \cup {DefaultBlockSize} :
          ScrambleExtract(block_size)
    \/ \E block_size \in (1..GridMaxBS) \cup {DefaultBlockSize} :
          UnscrambleExtract(block_size)

GridSpec == GridInit /\ [][GridNext]_vars

(***************************************************************************)
(* Properties.                                                             *)
(***************************************************************************)
\* ceil(a / b) for a >= 1, b >= 1, stated without the division.
CeilOf(a, b) == CHOOSE c \in 1..a : (c - 1) * b < a /\ a <= c * b

RectW(r) == r[3] - r[1]
RectH(r) == r[4] - r[2]
SameShape(r1, r2) == RectW(r1) = RectW(r2) /\ RectH(r1) = RectH(r2)
InRect(p, r) == r[1] <= p[1] /\ p[1] < r[3] /\ r[2] <= p[2] /\ p[2] < r[4]

ScrambleWroteBoth == s_status = "ok"
ScrambleFailed == s_status \notin {"none", "ok"}
UnscrambleFailed == d_status \notin {"none", "ok"}
\* block_unscramble got as far as comparing the key with the blocks.
UnscrambleCompared ==
    d_status \in {"KeySizeMismatch", "IndexError", "ValueError", "SaveError", "ok"}
\* The pair of calls the round trip is about.
MatchingPair ==
    /\ s_status = "ok" /\ d_status = "ok"
    /\ d_keypath = "default" /\ d_bs = s_bs /\ s_bs >= 1

\* C1: unscrambling the scrambled image with the key block_scramble wrote and
\* the same block_size >= 1 yields the original image, pixel for pixel, for
\* every image size.
C1_RoundTrip == MatchingPair => out = src

\* C2: a loaded key whose length differs from the block count
\* ceil(width/block_size) * ceil(height/block_size) of the scrambled image
\* is reported as a size mismatch and no output image is written.
\* The block count is that of a grid, so block_size >= 1.
C2_KeyLengthRejection ==
    (/\ UnscrambleCompared
     /\ d_bs >= 1
     /\ Len(d_key) # CeilOf(scr.w, d_bs) * CeilOf(scr.h, d_bs))
        => (d_status = "KeySizeMismatch" /\ ~out.exists)

C2_Witness ==
    /\ d_status = "KeySizeMismatch"
    /\ d_bs >= 1
    /\ Len(d_key) + 1 = CeilOf(scr.w, d_bs) * CeilOf(scr.h, d_bs)
    /\ ~out.exists

\* C3: a call that ends in a failure leaves none of its output files behind;
\* in particular no scrambled image without its key file.
C3_NoPartialOutput ==
    /\ ScrambleFailed => (~scr.exists /\ ~keyf.exists)
    /\ UnscrambleFailed => ~out.exists

\* C4: block_scramble with block_size <= 0 writes neither a scrambled image
\* nor a key file.
C4_InvalidBlockSize ==
    (s_status # "none" /\ s_bs <= 0) => (~scr.exists /\ ~keyf.exists)

\* The rectangles are the row-major grid of CeilOf x CeilOf cells, each
\* non-empty and inside the buffer, and every pixel lies in exactly one.
TilesBuffer(rects, width, height, block_size) ==
    LET cols == CeilOf(width, block_size)
        rows == CeilOf(height, block_size)
    IN  /\ Len(rects) = cols * rows
        /\ \A k \in 1..Len(rects) :
              /\ rects[k][1] = ((k - 1) % cols) * block_size
              /\ rects[k][2] = ((k - 1) \div cols) * block_size
              /\ 0 <= rects[k][1] /\ rects[k][1] < rects[k][3] /\ rects[k][3] <= width
              /\ 0 <= rects[k][2] /\ rects[k][2] < rects[k][4] /\ rects[k][4] <= height
        /\ \A p \in Pixels(width, height) :
              Cardinality({k \in 1..Len(rects) : InRect(p, rects[k])}) = 1

\* 65x65 with block size 32: 3x3 blocks, last column 1 wide, last row 1 high.
ScenarioShape(rects, width, height, block_size) ==
    (/\ width = 2 * DefaultBlockSize + 1
     /\ height = 2 * DefaultBlockSize + 1
     /\ block_size = DefaultBlockSize)
        => /\ Len(rects) = 9
           /\ \A k \in 1..Len(rects) :
                 /\ (k - 1) % 3 = 2 => RectW(rects[k]) = 1
                 /\ (k - 1) \div 3 = 2 => RectH(rects[k]) = 1

\* C5: for width, height, block_size >= 1 the extraction loops of both
\* operations yield ceil(w/bs)*ceil(h/bs) non-empty in-bounds rectangles in
\* row-major order that tile the buffer without overlap or gap; 65x65 with
\* block size 32 gives 9 blocks with last-column width 1, last-row height 1.
C5_RaggedTiling ==
    /\ s_rects # <<>> =>
          /\ TilesBuffer(s_rects, src.w, src.h, s_bs)
          /\ ScenarioShape(s_rects, src.w, src.h, s_bs)
    /\ d_rects # <<>> =>
          /\ TilesBuffer(d_rects, src.w, src.h, d_bs)
          /\ ScenarioShape(d_rects, src.w, src.h, d_bs)

C5_Witness ==
    /\ s_rects # <<>> /\ d_rects # <<>>
    /\ src.w = 2 * DefaultBlockSize + 1 /\ src.h = 2 * DefaultBlockSize + 1
    /\ s_bs = DefaultBlockSize /\ d_bs = DefaultBlockSize
    /\ Len(s_rects) = 9 /\ Len(d_rects) = 9

IsBijection(p, n) ==
    /\ Len(p) = n
    /\ \A v \in 0..(n - 1) : Cardinality({k \in 1..Len(p) : p[k] = v}) = 1

\* C6: the permutation block_scramble generates, and the one decoded from
\* the key file it wrote, has length N = number of blocks and contains each
\* integer of [0, N) exactly once.
C6_Bijection ==
    /\ s_status \in {"ok", "SaveError", "KeyOpenError", "KeyWriteError"}
          => IsBijection(perm, Len(s_rects))
    /\ s_status = "ok"
          => /\ keyf.exists
             /\ JsonValid(keyf.toks)
             /\ IsBijection(JsonLoad(keyf.toks), Len(s_rects))

C6_Witness ==
    /\ s_status = "ok"
    /\ Len(s_rects) >= 3
    /\ JsonLoad(keyf.toks) # RangeList(Len(s_rects))
    /\ IsBijection(JsonLoad(keyf.toks), Len(s_rects))

\* C7: every block pasted has the width and height of the grid rectangle it
\* is pasted at; a call in which a shape differs ends in an error and writes
\* no output image.
C7_ShapeMatch ==
    /\ (s_status \in {"ok", "KeyOpenError", "KeyWriteError"} \/ scr.exists)
          => \A g \in 1..Len(perm) : SameShape(s_rects[perm[g] + 1], s_rects[g])
    /\ (d_status = "ok" \/ out.exists)
          => \A k \in 1..Len(d_key) :
                SameShape(d_rects[k], d_rects[PyIndex(d_key[k], Len(d_key)) + 1])

\* C8: after block_scramble, the content of the scrambled image inside grid
\* rectangle g is the content of original block permutation[g], for the
\* permutation written to the key file.
C8_PermutationSemantics ==
    (s_status = "ok" /\ s_bs >= 1)
        => \A g \in 1..Len(s_rects) :
              Crop(scr, s_rects[g]) = Crop(src, s_rects[JsonLoad(keyf.toks)[g] + 1])

\* A key of the right length, with values in [0, N), one of them twice.
DuplicateKeyLoaded ==
    /\ UnscrambleCompared
    /\ d_bs >= 1
    /\ Len(d_key) = Len(d_rects)
    /\ \A k \in 1..Len(d_key) : d_key[k] \in 0..(Len(d_key) - 1)
    /\ \E k1, k2 \in 1..Len(d_key) : k1 # k2 /\ d_key[k1] = d_key[k2]

\* C9 as stated: such a key is not rejected, no error is reported and an
\* output image is written.
C9_MalformedKeyAccepted ==
    DuplicateKeyLoaded => (d_status = "ok" /\ out.exists)

\* C9 amended: such a key passes the length check, but pasting the slot that
\* was never assigned raises; the call ends in that error and writes no
\* output image.
C9_MalformedKeyFails ==
    DuplicateKeyLoaded => (d_status = "ValueError" /\ ~out.exists)

C9_Witness == DuplicateKeyLoaded /\ d_status = "ValueError" /\ ~out.exists

\* C10: when width and height are multiples of block_size, unscrambling the
\* scrambled image with the key written (any permutation of the blocks) and
\* the same block_size reproduces the original image exactly.
C10_ExactGridRoundTrip ==
    (/\ MatchingPair
     /\ src.w % s_bs = 0
     /\ src.h % s_bs = 0)
        => out = src

\* An exact grid and a permutation that is not its own inverse.
C10_Witness ==
    /\ MatchingPair
    /\ src.w % s_bs = 0 /\ src.h % s_bs = 0
    /\ \E g \in 1..Len(perm) : perm[perm[g] + 1] # g - 1
    /\ scr # src
    /\ out = src

====
